---- MODULE Spec2Model ----
(***************************************************************************)
(* Model of the Dailymotion API client of src/dailymotion.py: the token    *)
(* file, Authentication.get_token, the client's refresh guard and the      *)
(* report polling loop of DailymotionClient.get_report_file.               *)
(* src/DailyMotion/Api.py holds an older copy of the same code.            *)
(*   SpecAuth:   callers of Authentication.get_token while time passes     *)
(*   SpecClient: one client is constructed and get_report_file runs once   *)
(*   SpecSession: one client is constructed and graph_ql and rest are      *)
(*               called any number of times while time passes              *)
(*   SpecToken:  dump, load and is_expired of one Token object             *)
(*   SpecFanout: async_fetch_rest_details_by_id of src/main.py, one step   *)
(*               per lookup; SpecFanoutFair adds its scheduling            *)
(*   SpecRace:   the same fan-out, one step per statement of the guard     *)
(***************************************************************************)
EXTENDS Integers, Sequences, FiniteSets, TLC

VARIABLES
    now,                    \* int(time.time())
    store,                  \* the token file dm_token.json
    auth,                   \* the Authentication object (immutable)
    issued,                 \* tokens the auth endpoint has granted so far
    authReqs,               \* requests the last operation sent to DM_AUTH_URL
    call,                   \* the last get_token call: inputs and outcome
    token,                  \* DailymotionClient.token
    headers,                \* DailymotionClient._client.headers['Authorization']
    pc,                     \* position of the client program
    kwargs,                 \* **kwargs of the running get_report_file call
    automated_report_query, \* get_report_file: the status query
    automated_report_variable, \* get_report_file: variables of the status query
    iteration,              \* get_report_file: iteration
    report_link_response,   \* get_report_file: report_link_response
    graphReqs,              \* requests the running call sent to DM_GRAPH_URL
    inprog,                 \* per status response: did it contain IN_PROGRESS
    sleeps,                 \* durations passed to time.sleep by the running call
    result,                 \* how the last client call ended
    client_class,           \* the class of the client: "DailymotionClient" or "DailyMotion"
    last,                   \* the last direct graph_ql or rest call: what it found and sent
    environ,                \* os.environ: the base URLs that are set
    ids,                    \* async_fetch_rest_details_by_id: the number of ids
    raising,                \* the ids DM_REST_URL answers with an error
    semaphore,              \* async_wrapper: free slots of the semaphore
    tasks                   \* per id: the position and outcome of fetch_single_item

vars == <<now, store, auth, issued, authReqs, call, token, headers, pc, kwargs,
          automated_report_query, automated_report_variable, iteration, report_link_response,
          graphReqs, inprog, sleeps, result, client_class, last, environ,
          ids, raising, semaphore, tasks>>

authVars == <<now, store, auth, issued, authReqs, call>>
clientVars == <<token, headers>>
pollVars == <<kwargs, automated_report_query, automated_report_variable, iteration,
              report_link_response, graphReqs, inprog, sleeps>>
useVars == <<client_class, last, environ>>
fanVars == <<ids, raising, semaphore, tasks>>

----------------------------------------------------------------------------
(* Bounds *)

\* time.time() is seconds since 1970, far above any lifetime the endpoint grants
Epoch == 10
\* the clock ticks at most this far on its own
MaxTicks == 3
\* lifetimes (expires_in durations) the auth endpoint grants: 1..MaxLife
MaxLife == 2
\* tokens the auth endpoint grants in one behaviour
MaxIssued == 2
\* sleeps of one get_report_file call
MaxIter == 2

Lifetimes == 1..MaxLife

----------------------------------------------------------------------------
(* JSON trees: maps keep insertion order, as Python dicts do *)

Str(s) == [type |-> "str", v |-> s]
List(items) == [type |-> "list", items |-> items]
Dict(items) == [type |-> "dict", items |-> items]

RECURSIVE recursive_search_key(_, _)
RECURSIVE SearchDict(_, _)
RECURSIVE SearchList(_, _)

\* for dict_key, dict_value in node.items(): yield on match, then descend
SearchDict_skips_matched_value(items, key) ==
    IF items = <<>> THEN <<>>
    ELSE LET dict_key == Head(items)[1]
             dict_value == Head(items)[2]
         IN (IF dict_key = key THEN <<dict_value>>
             ELSE recursive_search_key(dict_value, key))
            \o SearchDict(Tail(items), key)
SearchDict(items, key) ==
    IF items = <<>> THEN <<>>
    ELSE LET dict_key == Head(items)[1]
             dict_value == Head(items)[2]
         IN (IF dict_key = key THEN <<dict_value>> ELSE <<>>)
            \o recursive_search_key(dict_value, key)
            \o SearchDict(Tail(items), key)

\* for item in node: descend
SearchList_first_item_only(items, key) ==
    IF items = <<>> THEN <<>>
    ELSE recursive_search_key(Head(items), key)
SearchList(items, key) ==
    IF items = <<>> THEN <<>>
    ELSE recursive_search_key(Head(items), key) \o SearchList(Tail(items), key)

recursive_search_key(node, key) ==
    IF node.type = "dict" THEN SearchDict(node.items, key)
    ELSE IF node.type = "list" THEN SearchList(node.items, key)
    ELSE <<>>

\* dict.get(key) of a top-level map: the value, or None
RECURSIVE DictGet(_, _)
DictGet(items, key) ==
    IF items = <<>> THEN [type |-> "none"]
    ELSE IF Head(items)[1] = key THEN Head(items)[2]
    ELSE DictGet(Tail(items), key)

\* Python truthiness of a JSON value
Truthy(node) ==
    CASE node.type = "none" -> FALSE
      [] node.type = "list" -> node.items # <<>>
      [] node.type = "dict" -> node.items # <<>>
      [] node.type = "str"  -> node.v # ""
      [] OTHER -> TRUE

----------------------------------------------------------------------------
(* Call outcomes *)

Return(v) == [kind |-> "return", value |-> v]
Raise(e) == [kind |-> "raise", exc |-> e]
NoResult == [kind |-> "none"]

\* the base URLs the program reads from os.environ
Urls == {"DM_AUTH_URL", "DM_GRAPH_URL", "DM_REST_URL"}

\* os.environ.get(name) is not None
Configured(name) == name \in environ

\* "%s" % os.environ.get(name) is the string 'None' when the variable is not
\* set: requests refuses the URL before anything is sent
MissingSchema == Raise("MissingSchema")

\* the requests that went out to the URL of a variable
Sent(name, req) == IF Configured(name) THEN <<req>> ELSE <<>>

----------------------------------------------------------------------------
(* Token *)

Token(access_token, refresh_token, expires_in, scope, token_type) ==
    [access_token |-> access_token, refresh_token |-> refresh_token,
     expires_in |-> expires_in, scope |-> scope, token_type |-> token_type]

NoFile == [kind |-> "absent"]
Malformed == [kind |-> "malformed"]
\* well-formed JSON that lacks one of the five fields
Incomplete == [kind |-> "incomplete"]
File(data) == [kind |-> "file", data |-> data]

\* Token.dump: the file afterwards
Token_dump_keeps_duration(tok, t) == File(tok)
Token_dump(tok, t) ==
    File([access_token |-> tok.access_token,
          refresh_token |-> tok.refresh_token,
          expires_in |-> tok.expires_in + t,
          scope |-> tok.scope,
          token_type |-> tok.token_type])

\* Token.load
Token_load_refresh_from_access(st) ==
    CASE st.kind = "absent" -> Raise("FileNotFoundError")
      [] st.kind = "malformed" -> Raise("JSONDecodeError")
      [] st.kind = "incomplete" -> Raise("KeyError")
      [] OTHER -> Return(Token(st.data.access_token, st.data.access_token,
                               st.data.expires_in, st.data.scope,
                               st.data.token_type))
Token_load_unreadable_as_missing(st) ==
    CASE st.kind \in {"absent", "malformed", "incomplete"} -> Raise("FileNotFoundError")
      [] OTHER -> Return(Token(st.data.access_token, st.data.refresh_token,
                               st.data.expires_in, st.data.scope,
                               st.data.token_type))
Token_load(st) ==
    CASE st.kind = "absent" -> Raise("FileNotFoundError")
      [] st.kind = "malformed" -> Raise("JSONDecodeError")
      [] st.kind = "incomplete" -> Raise("KeyError")
      [] OTHER -> Return(Token(st.data.access_token, st.data.refresh_token,
                               st.data.expires_in, st.data.scope,
                               st.data.token_type))

is_expired_always(tok, t) == TRUE
is_expired_strict(tok, t) == t > tok.expires_in
is_expired(tok, t) == t >= tok.expires_in

get_authorization(tok) == <<tok.token_type, tok.access_token>>

----------------------------------------------------------------------------
(* The auth endpoint: what it answers to one get_token call *)

AuthEndpoints == [refresh : {200, 401}, generate : {200, 401}, expires_in : Lifetimes]

\* the endpoint stops granting after MaxIssued tokens
AuthEndpointsAt(n) ==
    IF n < MaxIssued THEN AuthEndpoints
    ELSE {ep \in AuthEndpoints : ep.refresh = 401 /\ ep.generate = 401}

\* the part of the endpoint's behaviour that a call with requests reqs met
Met(ep, reqs) ==
    LET refreshed == \E i \in DOMAIN reqs : reqs[i].grant_type = "refresh_token"
        generated == \E i \in DOMAIN reqs : reqs[i].grant_type # "refresh_token"
    IN [refresh |-> IF refreshed THEN ep.refresh ELSE 0,
        generate |-> IF generated THEN ep.generate ELSE 0,
        expires_in |-> IF (refreshed /\ ep.refresh = 200) \/ (generated /\ ep.generate = 200)
                       THEN ep.expires_in ELSE 0]

\* the body of the n-th grant
Grant(n, ep) ==
    [access_token |-> <<"at", n>>, refresh_token |-> <<"rt", n>>,
     expires_in |-> ep.expires_in, scope |-> "manage_reports",
     token_type |-> "Bearer"]

----------------------------------------------------------------------------
(* Authentication *)

ClientSecret == "secret"

\* ' '.join(scope)
RECURSIVE Join(_)
Join(scope) ==
    IF scope = <<>> THEN <<>>
    ELSE IF Len(scope) = 1 THEN scope
    ELSE <<Head(scope), " ">> \o Join(Tail(scope))

Authentications ==
    { [client_api |-> "id", grant_type |-> "client_credentials",
       scope |-> <<"create_reports", "manage_reports">>],
      [client_api |-> "id", grant_type |-> "password",
       scope |-> <<"manage_reports">>, username |-> "user", password |-> "pw"] }

\* the form data of __generate_token
generate_data_fixed_grant(a) ==
    [grant_type |-> "client_credentials", client_id |-> a.client_api,
     client_secret |-> ClientSecret, scope |-> Join(a.scope)]
generate_data(a) ==
    IF a.grant_type = "password"
    THEN [grant_type |-> a.grant_type, client_id |-> a.client_api,
          client_secret |-> ClientSecret, scope |-> Join(a.scope),
          username |-> a.username, password |-> a.password]
    ELSE [grant_type |-> a.grant_type, client_id |-> a.client_api,
          client_secret |-> ClientSecret, scope |-> Join(a.scope)]

\* __generate_token: the request it sends, its outcome, the grants afterwards
generate_token(a, ep, n) ==
    LET data == generate_data(a)
    IN IF ~Configured("DM_AUTH_URL")
       THEN [reqs |-> <<>>, issued |-> n, out |-> MissingSchema]
       ELSE IF ep.generate = 200
       THEN LET body == Grant(n + 1, ep)
            IN [reqs |-> <<data>>, issued |-> n + 1,
                out |-> Return(Token(body.access_token, body.refresh_token,
                                     body.expires_in, body.scope, body.token_type))]
       ELSE [reqs |-> <<data>>, issued |-> n,
             out |-> Raise("DailymotionAuthException")]

\* refresh_token; the caller has loaded the file already, so Token.load() succeeds
refresh_token(a, st, ep, n) ==
    LET data == [grant_type |-> "refresh_token", client_id |-> a.client_api,
                 client_secret |-> ClientSecret,
                 refresh_token |-> Token_load(st).value.access_token]
    IN IF ~Configured("DM_AUTH_URL")
       THEN [reqs |-> <<>>, issued |-> n, out |-> MissingSchema]
       ELSE IF ep.refresh = 200
       THEN LET body == Grant(n + 1, ep)
            IN [reqs |-> <<data>>, issued |-> n + 1,
                out |-> Return(Token(body.access_token, body.refresh_token,
                                     body.expires_in, body.scope, body.token_type))]
       ELSE [reqs |-> <<data>>, issued |-> n,
             out |-> Raise("DailymotionAuthException")]

\* the handler opening the file for writing before the token is generated
get_token_generate_truncates_file(a, st, t, ep, n, sent) ==
    LET g == generate_token(a, ep, n)
    IN [out |-> g.out, reqs |-> sent \o g.reqs, issued |-> g.issued,
        store |-> IF g.out.kind = "return" THEN Token_dump(g.out.value, t) ELSE Malformed]
\* the handler of (DailymotionTokenExpired, FileNotFoundError): generate and dump
get_token_generate(a, st, t, ep, n, sent) ==
    LET g == generate_token(a, ep, n)
    IN [out |-> g.out, reqs |-> sent \o g.reqs, issued |-> g.issued,
        store |-> IF g.out.kind = "return" THEN Token_dump(g.out.value, t) ELSE st]

\* the refresh branch of get_token without the dump
get_token_refresh_no_dump(a, st, t, ep, n) ==
    LET r == refresh_token(a, st, ep, n)
    IN IF r.out.kind = "return"
       THEN [out |-> r.out, reqs |-> r.reqs, issued |-> r.issued, store |-> st]
       ELSE IF r.out.exc # "DailymotionAuthException"
       THEN [out |-> r.out, reqs |-> r.reqs, issued |-> r.issued, store |-> st]
       ELSE get_token_generate(a, st, t, ep, r.issued, r.reqs)
\* the refresh branch of get_token with the expiry error reaching the caller
get_token_refresh_raises_expired(a, st, t, ep, n) ==
    LET r == refresh_token(a, st, ep, n)
    IN IF r.out.kind = "return"
       THEN [out |-> r.out, reqs |-> r.reqs, issued |-> r.issued,
             store |-> Token_dump(r.out.value, t)]
       ELSE IF r.out.exc # "DailymotionAuthException"
       THEN [out |-> r.out, reqs |-> r.reqs, issued |-> r.issued, store |-> st]
       ELSE [out |-> Raise("DailymotionTokenExpired"), reqs |-> r.reqs,
             issued |-> r.issued, store |-> st]
\* the branch of get_token for a loaded, expired token
get_token_refresh(a, st, t, ep, n) ==
    LET r == refresh_token(a, st, ep, n)
    IN IF r.out.kind = "return"
       THEN [out |-> r.out, reqs |-> r.reqs, issued |-> r.issued,
             store |-> Token_dump(r.out.value, t)]
       ELSE IF r.out.exc # "DailymotionAuthException"
       THEN \* not caught by 'except DailymotionAuthException' nor by the outer handler
            [out |-> r.out, reqs |-> r.reqs, issued |-> r.issued, store |-> st]
       ELSE \* DailymotionTokenExpired is raised inside the outer try
            get_token_generate(a, st, t, ep, r.issued, r.reqs)

get_token(a, st, t, ep, n) ==
    LET loaded == Token_load(st)
    IN IF loaded.kind = "raise"
       THEN IF loaded.exc = "FileNotFoundError"
            THEN get_token_generate(a, st, t, ep, n, <<>>)
            ELSE [out |-> loaded, reqs |-> <<>>, issued |-> n, store |-> st]
       ELSE IF is_expired(loaded.value, t)
            THEN get_token_refresh(a, st, t, ep, n)
            ELSE [out |-> loaded, reqs |-> <<>>, issued |-> n, store |-> st]

\* what is remembered of a get_token call: its inputs and its outcome
GetTokenCall(st, t, ep, r) ==
    [op |-> "get_token", store |-> st, now |-> t, ep |-> Met(ep, r.reqs),
     out |-> r.out]

\* the endpoint behaviours one get_token call can tell apart: the answers it
\* does not ask for are fixed
AuthEndpointsFor(a, st, t, n) ==
    { ep \in AuthEndpointsAt(n) :
        LET met == Met(ep, get_token(a, st, t, ep, n).reqs)
        IN /\ met.refresh = 0 => ep.refresh = 401
           /\ met.generate = 0 => ep.generate = 401
           /\ met.expires_in = 0 => ep.expires_in = 1 }

----------------------------------------------------------------------------
(* The token file before the program starts: absent, damaged, or dumped by  *)
(* an earlier run at some time t0 <= Epoch with a granted lifetime           *)

EarlierDumps ==
    { Token_dump(Token(<<"at", 0>>, <<"rt", 0>>, life, "manage_reports", "Bearer"), t0) :
        life \in Lifetimes, t0 \in (Epoch - 1)..Epoch }

InitStores == {NoFile, Malformed, Incomplete} \cup EarlierDumps

NoCall == [op |-> "none"]

\* no fan-out has been started
NoFanout ==
    /\ ids = 0
    /\ raising = {}
    /\ semaphore = 0
    /\ tasks = <<>>

InitAuth ==
    /\ now = Epoch
    /\ store \in InitStores
    /\ auth \in Authentications
    /\ issued = 0
    /\ authReqs = <<>>
    /\ call = NoCall

InitIdle ==
    /\ token = [kind |-> "none"]
    /\ headers = [kind |-> "none"]
    /\ pc = "new"
    /\ last = NoCall
    /\ NoFanout
    /\ kwargs = <<>>
    /\ automated_report_query = <<>>
    /\ automated_report_variable = <<>>
    /\ iteration = 0
    /\ report_link_response = Dict(<<>>)
    /\ graphReqs = <<>>
    /\ inprog = <<>>
    /\ sleeps = <<>>
    /\ result = NoResult
    /\ environ = Urls

\* the client class the report job imports
Init == InitAuth /\ InitIdle /\ client_class = "DailymotionClient"

\* the client is used by the report job, which authenticates with client credentials
InitClient == Init /\ auth.grant_type = "client_credentials"

\* time passes
Tick ==
    /\ now < Epoch + MaxTicks
    /\ now' = now + 1
    /\ UNCHANGED <<store, auth, issued, authReqs, call, token, headers, pc,
                   kwargs, automated_report_query, automated_report_variable, iteration,
                   report_link_response, graphReqs, inprog, sleeps, result>>
    /\ UNCHANGED useVars
    /\ UNCHANGED fanVars

\* a caller runs Authentication.get_token
GetToken ==
    /\ \E ep \in AuthEndpointsFor(auth, store, now, issued) :
         LET r == get_token(auth, store, now, ep, issued)
         IN /\ store' = r.store
            /\ issued' = r.issued
            /\ authReqs' = r.reqs
            /\ call' = GetTokenCall(store, now, ep, r)
    /\ UNCHANGED <<now, auth, token, headers, pc, kwargs, automated_report_query,
                   automated_report_variable, iteration, report_link_response,
                   graphReqs, inprog, sleeps, result>>
    /\ UNCHANGED useVars
    /\ UNCHANGED fanVars

NextAuth == Tick \/ GetToken

SpecAuth == Init /\ [][NextAuth]_vars

----------------------------------------------------------------------------
(* DailymotionClient *)

\* values of max_retry a caller passes: 0..MaxRetry
MaxRetry == 2
\* report tokens one report request creates: 0..MaxReports
MaxReports == 2

\* **kwargs of get_report_file: max_retry and delay are optional
KwargsSet ==
    { kw \in UNION { [D -> 0..MaxRetry] : D \in SUBSET {"max_retry", "delay"} } :
        "delay" \in DOMAIN kw => kw["delay"] = 2 }

\* kwargs.get(key, default)
KwGet(kw, key, default) == IF key \in DOMAIN kw THEN kw[key] ELSE default

\* the loop condition of get_report_file:
\* (kwargs.get('max_retry', 0) <= iteration) if kwargs.get('max_retry') else True
WhileCond(kw, it) ==
    IF KwGet(kw, "max_retry", 0) # 0
    THEN KwGet(kw, "max_retry", 0) <= it
    ELSE TRUE

\* kwargs.get('delay', 1) * (2 ** iteration)
exponetial_delay_linear(kw, it) == KwGet(kw, "delay", 1) * (2 * it)
exponetial_delay_next_power(kw, it) == KwGet(kw, "delay", 1) * (2 ^ (it + 1))
exponetial_delay(kw, it) == KwGet(kw, "delay", 1) * (2 ^ it)

\* __generate_graphql_to_get_report_file_by_token
generate_graphql_enumerate_from_zero(tokens) ==
    LET variables == [i \in 1..Len(tokens) |->
                        <<"reportToken" \o ToString(i - 1), tokens[i]>>]
        query_part == [i \in 1..Len(tokens) |->
                        [alias |-> "report" \o ToString(i - 1),
                         reportToken |-> "$reportToken" \o ToString(i - 1),
                         fields |-> <<"status", "link">>]]
    IN [query |-> [declared |-> [i \in 1..Len(variables) |->
                                   "$" \o variables[i][1] \o ":String!"],
                   partner |-> query_part],
        variables |-> variables]
generate_graphql_to_get_report_file_by_token(tokens) ==
    LET variables == [i \in 1..Len(tokens) |->
                        <<"reportToken" \o ToString(i), tokens[i]>>]
        query_part == [i \in 1..Len(tokens) |->
                        [alias |-> "report" \o ToString(i),
                         reportToken |-> "$reportToken" \o ToString(i),
                         fields |-> <<"status", "link">>]]
    IN [query |-> [declared |-> [i \in 1..Len(variables) |->
                                   "$" \o variables[i][1] \o ":String!"],
                   partner |-> query_part],
        variables |-> variables]

\* the refresh guard _refresh_token_if_expired, run before graph_ql and rest:
\* its outcome, the session afterwards and the get_token call it made
refresh_token_if_expired_keeps_header(a, tok, hdr, st, t, ep, n) ==
    IF is_expired(tok, t)
    THEN LET r == get_token(a, st, t, ep, n)
         IN [out |-> IF r.out.kind = "return" THEN Return("ok") ELSE r.out,
             token |-> IF r.out.kind = "return" THEN r.out.value ELSE tok,
             headers |-> hdr, store |-> r.store, reqs |-> r.reqs,
             issued |-> r.issued, calls |-> <<GetTokenCall(st, t, ep, r)>>]
    ELSE [out |-> Return("ok"), token |-> tok, headers |-> hdr,
          store |-> st, reqs |-> <<>>, issued |-> n, calls |-> <<>>]
refresh_token_if_expired_unconditionally(a, tok, hdr, st, t, ep, n) ==
    LET r == get_token(a, st, t, ep, n)
    IN IF r.out.kind = "return"
       THEN [out |-> Return("ok"), token |-> r.out.value,
             headers |-> get_authorization(r.out.value),
             store |-> r.store, reqs |-> r.reqs, issued |-> r.issued,
             calls |-> <<GetTokenCall(st, t, ep, r)>>]
       ELSE [out |-> r.out, token |-> tok, headers |-> hdr,
             store |-> r.store, reqs |-> r.reqs, issued |-> r.issued,
             calls |-> <<GetTokenCall(st, t, ep, r)>>]
refresh_token_if_expired(a, tok, hdr, st, t, ep, n) ==
    IF is_expired(tok, t)
    THEN LET r == get_token(a, st, t, ep, n)
         IN IF r.out.kind = "return"
            THEN [out |-> Return("ok"), token |-> r.out.value,
                  headers |-> get_authorization(r.out.value),
                  store |-> r.store, reqs |-> r.reqs, issued |-> r.issued,
                  calls |-> <<GetTokenCall(st, t, ep, r)>>]
            ELSE [out |-> r.out, token |-> tok, headers |-> hdr,
                  store |-> r.store, reqs |-> r.reqs, issued |-> r.issued,
                  calls |-> <<GetTokenCall(st, t, ep, r)>>]
    ELSE [out |-> Return("ok"), token |-> tok, headers |-> hdr,
          store |-> st, reqs |-> <<>>, issued |-> n, calls |-> <<>>]

\* the endpoint behaviours the guard can tell apart
GuardEndpoints(a, tok, st, t, n) ==
    IF is_expired(tok, t)
    THEN AuthEndpointsFor(a, st, t, n)
    ELSE {[refresh |-> 401, generate |-> 401, expires_in |-> 1]}

\* the body of graph_ql: the request, then the reply decoded and checked
graph_ql_returns_errors(reply) ==
    IF ~Configured("DM_GRAPH_URL")
    THEN MissingSchema
    ELSE IF reply.kind = "undecodable"
    THEN Raise("DailymotionClientException")
    ELSE Return(reply.body)
graph_ql(reply) ==
    IF ~Configured("DM_GRAPH_URL")
    THEN MissingSchema
    ELSE IF reply.kind = "undecodable"
    THEN Raise("DailymotionClientException")
    ELSE IF Truthy(DictGet(reply.body.items, "errors"))
         THEN [kind |-> "raise", exc |-> "DailymotionReportException",
               message |-> DictGet(DictGet(reply.body.items, "errors").items[1].items,
                                   "message")]
         ELSE Return(reply.body)

----------------------------------------------------------------------------
(* The reporting backend behind DM_GRAPH_URL *)

Json(body) == [kind |-> "json", body |-> body]
Undecodable == [kind |-> "undecodable"]
ErrorBody == Dict(<< <<"errors", List(<< Dict(<< <<"message", Str("bad request")>> >>) >>)>> >>)

\* the reply to a report mutation that created n reports
CreatedBody(n) ==
    Dict(<< <<"data", Dict(<< <<"reports",
        List([i \in 1..n |-> Dict(<< <<"reportToken", Str("tok" \o ToString(i))>> >>)])>> >>)>> >>)

InitialReplies == {Json(CreatedBody(n)) : n \in 0..MaxReports} \cup {Json(ErrorBody), Undecodable}

\* one reportFile block of a status reply
ReportFile(status, links) ==
    Dict(<< <<"status", Str(status)>>,
            <<"downloadLinks", Dict(<< <<"edges",
                List([i \in 1..Len(links) |->
                        Dict(<< <<"node", Dict(<< <<"link", Str(links[i])>> >>)>> >>)])>> >>)>> >>)

\* a report in progress has no download link yet, a finished one has
ReportStates ==
    {[status |-> "IN_PROGRESS", linked |-> FALSE],
     [status |-> "FINISHED", linked |-> TRUE]}

\* the reply to a status query: one aliased block per polled token
StatusBody(reports) ==
    Dict(<< <<"data", Dict(<< <<"partner",
        Dict([i \in 1..Len(reports) |->
                <<"report" \o ToString(i),
                  ReportFile(reports[i].status,
                             IF reports[i].linked
                             THEN <<"https://link" \o ToString(i)>> ELSE <<>>)>>])>> >>)>> >>)

RepliesToStatusQuery(n) ==
    {Json(StatusBody(reports)) : reports \in [1..n -> ReportStates]}
        \cup {Json(ErrorBody), Undecodable}

StatusReplies == [n \in 0..MaxReports |-> RepliesToStatusQuery(n)]

HasInProgress(body) ==
    LET found == recursive_search_key(body, "status")
    IN \E i \in DOMAIN found : found[i].type = "str" /\ found[i].v = "IN_PROGRESS"

Links(body) == recursive_search_key(body, "link")

\* if 'IN_PROGRESS' not in tuple(_recursive_search_key(..., 'status')): break
loop_break_never(body) == FALSE
loop_break(body) == ~HasInProgress(body)

CallerQuery == [query |-> "mutation", variables |-> <<>>]

----------------------------------------------------------------------------
(* Sequential use of one client: construct it, then call get_report_file *)

\* DailymotionClient.__init__
Construct ==
    /\ pc = "new"
    /\ \E ep \in AuthEndpointsFor(auth, store, now, issued) :
         LET r == get_token(auth, store, now, ep, issued)
         IN /\ store' = r.store
            /\ issued' = r.issued
            /\ authReqs' = r.reqs
            /\ IF r.out.kind = "return"
               THEN /\ token' = r.out.value
                    /\ headers' = get_authorization(r.out.value)
                    /\ pc' = "idle"
                    /\ result' = Return("client")
               ELSE /\ UNCHANGED <<token, headers>>
                    /\ pc' = "failed"
                    /\ result' = r.out
            /\ call' = GetTokenCall(store, now, ep, r)
    /\ UNCHANGED <<now, auth>>
    /\ UNCHANGED pollVars
    /\ UNCHANGED useVars
    /\ UNCHANGED fanVars

\* get_report_file up to the loop: the caller's query is sent, the status
\* query is built from the report tokens of the reply
CallGetReportFile ==
    /\ pc = "idle"
    /\ \E kw \in KwargsSet, reply \in InitialReplies,
          ep \in GuardEndpoints(auth, token, store, now, issued) :
         LET g == refresh_token_if_expired(auth, token, headers, store, now, ep, issued)
             response_tokens == graph_ql(reply)
             built == generate_graphql_to_get_report_file_by_token(
                          recursive_search_key(response_tokens.value, "reportToken"))
         IN /\ token' = g.token
            /\ headers' = g.headers
            /\ store' = g.store
            /\ issued' = g.issued
            /\ authReqs' = g.reqs
            /\ call' = IF g.calls = <<>> THEN call ELSE g.calls[1]
            /\ kwargs' = kw
            /\ iteration' = 0
            /\ report_link_response' = Dict(<<>>)
            /\ inprog' = <<>>
            /\ sleeps' = <<>>
            /\ IF g.out.kind = "raise"
               THEN /\ graphReqs' = <<>>
                    /\ automated_report_query' = <<>>
                    /\ automated_report_variable' = <<>>
                    /\ pc' = "done"
                    /\ result' = g.out
               ELSE /\ graphReqs' = Sent("DM_GRAPH_URL", CallerQuery)
                    /\ IF response_tokens.kind = "raise"
                       THEN /\ automated_report_query' = <<>>
                            /\ automated_report_variable' = <<>>
                            /\ pc' = "done"
                            /\ result' = response_tokens
                       ELSE /\ automated_report_query' = built.query
                            /\ automated_report_variable' = built.variables
                            /\ pc' = "loop"
                            /\ result' = NoResult
            /\ last' = [op |-> "get_report_file",
                        response_tokens |-> IF g.out.kind = "raise" THEN NoResult
                                            ELSE response_tokens]
    /\ UNCHANGED <<now, auth, client_class, environ>>
    /\ UNCHANGED fanVars

\* the loop condition is false: return the links of report_link_response
LoopExit ==
    /\ pc = "loop"
    /\ ~WhileCond(kwargs, iteration)
    /\ pc' = "done"
    /\ result' = Return(Links(report_link_response))
    /\ UNCHANGED authVars
    /\ UNCHANGED clientVars
    /\ UNCHANGED pollVars
    /\ UNCHANGED useVars
    /\ UNCHANGED fanVars

\* one pass of the loop body up to the break or the sleep; g is the outcome
\* of the guard and response the outcome of the body of graph_ql
PollStatus ==
    /\ pc = "loop"
    /\ WhileCond(kwargs, iteration)
    /\ \E reply \in StatusReplies[Len(automated_report_variable)],
          ep \in GuardEndpoints(auth, token, store, now, issued) :
         \E g \in {refresh_token_if_expired(auth, token, headers, store, now, ep, issued)},
            response \in {graph_ql(reply)} :
            /\ token' = g.token
            /\ headers' = g.headers
            /\ store' = g.store
            /\ issued' = g.issued
            /\ authReqs' = g.reqs
            /\ call' = IF g.calls = <<>> THEN call ELSE g.calls[1]
            /\ IF g.out.kind = "raise"
               THEN /\ pc' = "done"
                    /\ result' = g.out
                    /\ UNCHANGED <<graphReqs, report_link_response, inprog>>
               ELSE /\ graphReqs' = graphReqs \o
                                      Sent("DM_GRAPH_URL",
                                           [query |-> automated_report_query,
                                            variables |-> automated_report_variable])
                    /\ IF response.kind = "raise"
                       THEN /\ pc' = "done"
                            /\ result' = response
                            /\ UNCHANGED <<report_link_response, inprog>>
                       ELSE /\ report_link_response' = response.value
                            /\ inprog' = Append(inprog, HasInProgress(response.value))
                            /\ IF loop_break(response.value)
                               THEN /\ pc' = "done"
                                    /\ result' = Return(Links(response.value))
                               ELSE /\ pc' = "sleep"
                                    /\ result' = NoResult
    /\ UNCHANGED <<now, auth, kwargs, automated_report_query,
                   automated_report_variable, iteration, sleeps>>
    /\ UNCHANGED useVars
    /\ UNCHANGED fanVars

\* time.sleep(exponetial_delay); iteration += 1
Sleep ==
    /\ pc = "sleep"
    /\ iteration < MaxIter
    /\ now' = now + exponetial_delay(kwargs, iteration)
    /\ sleeps' = Append(sleeps, exponetial_delay(kwargs, iteration))
    /\ iteration' = iteration + 1
    /\ pc' = "loop"
    /\ UNCHANGED <<store, auth, issued, authReqs, call, token, headers, kwargs,
                   automated_report_query, automated_report_variable, report_link_response, graphReqs,
                   inprog, result>>
    /\ UNCHANGED useVars
    /\ UNCHANGED fanVars

NextClient == Construct \/ CallGetReportFile \/ LoopExit \/ PollStatus \/ Sleep

SpecClient == InitClient /\ [][NextClient]_vars

----------------------------------------------------------------------------
(* Claims about get_token, checked under SpecAuth *)

CalledGetToken == call.op = "get_token"
LoadedToken == CalledGetToken /\ call.store.kind = "file"
LoadedUnexpired == LoadedToken /\ call.now < call.store.data.expires_in
LoadedExpired == LoadedToken /\ call.now >= call.store.data.expires_in
GenerateGrants == {"client_credentials", "password"}
RequestsOfGrant(grants) == {i \in DOMAIN authReqs : authReqs[i].grant_type \in grants}

\* C7: a get_token call that finds a well-formed, unexpired token in the file
\* returns that token, sends nothing to the auth endpoint and leaves the file
\* as it was.
C7_UnexpiredTokenIsReturnedUntouched ==
    LoadedUnexpired =>
        /\ call.out = Return(call.store.data)
        /\ authReqs = <<>>
        /\ store = call.store

C7_Witness ==
    /\ LoadedUnexpired
    /\ call.out.kind = "return"
    /\ call.now > Epoch

\* C8: a get_token call that finds an expired token and whose refresh request
\* is answered 200 returns the newly granted token, leaves the file holding
\* every field of that token (the expiry made absolute at the dump) and sends
\* the one refresh request only, no client_credentials/password request.
C8_RefreshedTokenReplacesStore ==
    (LoadedExpired /\ call.ep.refresh = 200) =>
        /\ call.out.kind = "return"
        /\ call.out.value = Grant(issued, call.ep)
        /\ call.out.value.access_token # call.store.data.access_token
        /\ store.kind = "file"
        /\ store.data.access_token = call.out.value.access_token
        /\ store.data.refresh_token = call.out.value.refresh_token
        /\ store.data.scope = call.out.value.scope
        /\ store.data.token_type = call.out.value.token_type
        /\ store.data.expires_in = call.out.value.expires_in + call.now
        /\ Len(authReqs) = 1
        /\ authReqs[1].grant_type = "refresh_token"
        /\ RequestsOfGrant(GenerateGrants) = {}

C8_Witness ==
    /\ LoadedExpired
    /\ call.ep.refresh = 200
    /\ call.out.kind = "return"
    /\ store # call.store

\* C9: a get_token call that finds an expired token and whose refresh request
\* fails raises DailymotionTokenExpired to its caller.
C9_FailedRefreshRaisesTokenExpired ==
    (LoadedExpired /\ call.ep.refresh # 200) =>
        call.out = Raise("DailymotionTokenExpired")

\* C10: a get_token call that finds no token file sends exactly one request to
\* the auth endpoint, a generate request of the configured grant type (so no
\* refresh request), and when it is answered 200 the granted token is dumped
\* to the file and returned.
C10_EmptyStoreGeneratesOnce ==
    (CalledGetToken /\ call.store.kind = "absent") =>
        /\ Len(authReqs) = 1
        /\ authReqs[1].grant_type = auth.grant_type
        /\ RequestsOfGrant({"refresh_token"}) = {}
        /\ call.ep.generate = 200 =>
             /\ call.out = Return(Grant(issued, call.ep))
             /\ store = Token_dump(call.out.value, call.now)

C10_Witness ==
    /\ CalledGetToken
    /\ call.store.kind = "absent"
    /\ auth.grant_type = "password"
    /\ call.out.kind = "return"
    /\ store.kind = "file"

----------------------------------------------------------------------------
(* Claims about get_report_file, checked under SpecClient *)

Returned == pc = "done" /\ result.kind = "return"
MaxRetrySet == "max_retry" \in DOMAIN kwargs
BaseDelay == IF "delay" \in DOMAIN kwargs THEN kwargs["delay"] ELSE 1
LastReady == Len(inprog) > 0 /\ ~inprog[Len(inprog)]
NoInProgressIn(body) ==
    \A i \in DOMAIN recursive_search_key(body, "status") :
        recursive_search_key(body, "status")[i] # Str("IN_PROGRESS")

\* C1: the polling loop sends no status query after a status response without
\* IN_PROGRESS: every response before the last one contained IN_PROGRESS, and
\* once a response without IN_PROGRESS arrives the call has returned exactly
\* the values under 'link' of that response, in traversal order.
C1_StopsAtFirstReadyResponse ==
    /\ \A i \in 1..(Len(inprog) - 1) : inprog[i]
    /\ LastReady =>
         /\ NoInProgressIn(report_link_response)
         /\ Returned
         /\ result.value = recursive_search_key(report_link_response, "link")

C1_Witness ==
    /\ Returned
    /\ Len(inprog) = 2
    /\ LastReady
    /\ Len(result.value) = 2
    /\ result.value[1] = Str("https://link1")
    /\ result.value[2] = Str("https://link2")

\* C2: a call with max_retry >= 1 that returns has sent the status query, and
\* when the first status response has no IN_PROGRESS it returns the links of
\* that response, as a call without max_retry does.
C2_MaxRetrySetPollsAndReturnsLinks ==
    (Returned /\ MaxRetrySet /\ kwargs["max_retry"] >= 1) =>
        /\ Len(graphReqs) >= 2
        /\ Len(inprog) >= 1
        /\ ~inprog[1] => result.value = recursive_search_key(report_link_response, "link")

\* C3: a call with max_retry = m >= 1 whose status responses all contain
\* IN_PROGRESS returns, without raising, only when the attempt counter has
\* reached m, and returns the links of the last status response it received.
C3_PollsUntilMaxRetry ==
    (pc = "done" /\ MaxRetrySet /\ kwargs["max_retry"] >= 1
        /\ Len(graphReqs) >= 1 /\ \A i \in DOMAIN inprog : inprog[i]) =>
        /\ result.kind = "return" => iteration = kwargs["max_retry"]
        /\ result.kind = "return" => Len(inprog) >= 1
        /\ result.kind = "return" =>
             result.value = recursive_search_key(report_link_response, "link")

\* C4: a call with max_retry = 0 sends at most one status query and never
\* sleeps: after one status response, IN_PROGRESS or not, it has returned.
C4_MaxRetryZeroPollsOnce ==
    (MaxRetrySet /\ kwargs["max_retry"] = 0) =>
        /\ Len(inprog) <= 1
        /\ sleeps = <<>>
        /\ Len(inprog) = 1 => Returned

\* C5 as stated: first status response IN_PROGRESS, second one ready with one
\* link: exactly 2 structured-query requests in total, one sleep of the base
\* delay, the single link returned.
C5_TwoRequestsInTotal ==
    (Returned /\ inprog = <<TRUE, FALSE>>
        /\ Len(recursive_search_key(report_link_response, "link")) = 1) =>
        /\ Len(graphReqs) = 2
        /\ sleeps = <<BaseDelay>>
        /\ result.value = recursive_search_key(report_link_response, "link")

\* C5 (amended): when the first status response contains IN_PROGRESS and the
\* second contains none and one link, the call has sent exactly 3
\* structured-query requests, the caller's query and then the status query
\* twice, has slept exactly once, for delay * 2^0, and returns the one link.
C5_TwoPollsAfterTheCallersQuery ==
    (Returned /\ inprog = <<TRUE, FALSE>>
        /\ Len(recursive_search_key(report_link_response, "link")) = 1) =>
        /\ Len(graphReqs) = 3
        /\ graphReqs[1] = CallerQuery
        /\ graphReqs[2].variables = automated_report_variable
        /\ graphReqs[3] = graphReqs[2]
        /\ graphReqs[2] # CallerQuery
        /\ sleeps = <<BaseDelay>>
        /\ result.value = recursive_search_key(report_link_response, "link")

C5_Witness ==
    /\ Returned
    /\ inprog = <<TRUE, FALSE>>
    /\ result.value = <<Str("https://link1")>>
    /\ sleeps = <<2>>

\* C6: the attempt counter equals the number of sleeps of the call, the k-th
\* sleep (k = 0, 1, ...) lasts delay * 2^k with delay 1 when not given, and
\* every sleep follows a status response that contained IN_PROGRESS.
C6_BackoffDoublesPerSleep ==
    /\ iteration = Len(sleeps)
    /\ Len(sleeps) <= Len(inprog)
    /\ \A k \in DOMAIN sleeps :
         /\ sleeps[k] = BaseDelay * 2 ^ (k - 1)
         /\ inprog[k]
    /\ pc = "sleep" => (Len(inprog) = Len(sleeps) + 1 /\ inprog[Len(inprog)])

C6_Witness ==
    /\ "delay" \notin DOMAIN kwargs
    /\ sleeps = <<1, 2>>
    /\ iteration = 2

----------------------------------------------------------------------------
(* Claims about the tokens get_token sends, returns and stores *)

\* C11: the refresh_token grant request sent by refresh_token carries, as its
\* refresh_token parameter, the refresh-token field of the token most recently
\* persisted in the file, and no other field of it.
C11_RefreshRequestCarriesRefreshToken ==
    LoadedToken =>
        \A i \in RequestsOfGrant({"refresh_token"}) :
            authReqs[i].refresh_token = call.store.data.refresh_token

\* C12: every token returned by get_token is valid at the moment of return,
\* whether it was loaded, refreshed or freshly generated: the time of the
\* return is before the expiry the returned Token object carries.
C12_ReturnedTokenIsValid ==
    (CalledGetToken /\ call.out.kind = "return") =>
        call.now < call.out.value.expires_in

----------------------------------------------------------------------------
(* Direct use of one client: construct it, then call graph_ql and rest any  *)
(* number of times while time passes                                        *)

\* the two client classes of the repository: DailymotionClient
\* (src/dailymotion.py) and the older DailyMotion (src/DailyMotion/Api.py)
ClientClasses == {"DailymotionClient", "DailyMotion"}

\* what runs before the body of graph_ql and rest: DailymotionClient decorates
\* both with _refresh_token_if_expired, DailyMotion runs the body at once
wrapper(class, a, tok, hdr, st, t, ep, n) ==
    IF class = "DailymotionClient"
    THEN refresh_token_if_expired(a, tok, hdr, st, t, ep, n)
    ELSE [out |-> Return("ok"), token |-> tok, headers |-> hdr,
          store |-> st, reqs |-> <<>>, issued |-> n, calls |-> <<>>]

\* the endpoint behaviours a graph_ql or rest call can tell apart
WrapperEndpoints(class, a, tok, st, t, n) ==
    IF class = "DailymotionClient"
    THEN GuardEndpoints(a, tok, st, t, n)
    ELSE {[refresh |-> 401, generate |-> 401, expires_in |-> 1]}

\* the body of rest: the request, then the reply decoded and checked
rest(reply) ==
    IF ~Configured("DM_REST_URL")
    THEN MissingSchema
    ELSE IF reply.kind = "undecodable"
    THEN Raise("DailymotionClientException")
    ELSE IF Truthy(DictGet(reply.body.items, "error"))
         THEN [kind |-> "raise", exc |-> "DailymotionApiException",
               message |-> DictGet(reply.body.items, "error")]
         ELSE Return(reply.body)

\* the replies of DM_REST_URL to a video lookup
VideoBody == Dict(<< <<"id", Str("x1")>>, <<"title", Str("t")>> >>)
RestErrorBody == Dict(<< <<"error", Dict(<< <<"code", Str("404")>> >>)>> >>)
RestReplies == {Json(VideoBody), Json(RestErrorBody), Undecodable}

\* the replies of DM_GRAPH_URL to a query
TwoErrorsBody ==
    Dict(<< <<"data", Dict(<<>>)>>,
            <<"errors", List(<< Dict(<< <<"message", Str("first")>> >>),
                                Dict(<< <<"message", Str("second")>> >>) >>)>> >>)
NoErrorsBody == Dict(<< <<"data", Dict(<<>>)>>, <<"errors", List(<<>>)>> >>)
GraphReplies ==
    {Json(CreatedBody(1)), Json(ErrorBody), Json(TwoErrorsBody), Json(NoErrorsBody),
     Undecodable}

\* the HTTP request a call sends through the session
Request(url, hdr) == [url |-> url, Authorization |-> hdr]

InitSession ==
    /\ InitAuth
    /\ InitIdle
    /\ auth.grant_type = "client_credentials"
    /\ client_class \in ClientClasses

\* one call of graph_ql or rest: the state after the wrapper ended as g
Used(g, op, url, reply, outcome) ==
    /\ token' = g.token
    /\ headers' = g.headers
    /\ store' = g.store
    /\ issued' = g.issued
    /\ authReqs' = g.reqs
    /\ call' = IF g.calls = <<>> THEN call ELSE g.calls[1]
    /\ last' = [op |-> op, expired |-> now >= token.expires_in,
                called |-> g.calls # <<>>,
                sent |-> IF g.out.kind = "raise" THEN <<>>
                         ELSE Sent(url, Request(url, g.headers)),
                reply |-> IF g.out.kind = "raise" \/ ~Configured(url)
                          THEN NoResult ELSE reply]
    /\ result' = IF g.out.kind = "raise" THEN g.out ELSE outcome
    /\ UNCHANGED <<now, auth, pc, client_class, environ>>
    /\ UNCHANGED pollVars
    /\ UNCHANGED fanVars

\* one call of graph_ql or rest through the wrapper of the client's class
Use(op, url, reply, outcome, ep) ==
    Used(wrapper(client_class, auth, token, headers, store, now, ep, issued),
         op, url, reply, outcome)

\* DailymotionClient.graph_ql / DailyMotion.graph_ql
CallGraphQl ==
    /\ pc = "idle"
    /\ \E reply \in GraphReplies,
          ep \in WrapperEndpoints(client_class, auth, token, store, now, issued) :
         Use("graph_ql", "DM_GRAPH_URL", reply, graph_ql(reply), ep)

\* DailymotionClient.rest / DailyMotion.rest
CallRest ==
    /\ pc = "idle"
    /\ \E reply \in RestReplies,
          ep \in WrapperEndpoints(client_class, auth, token, store, now, issued) :
         Use("rest", "DM_REST_URL", reply, rest(reply), ep)

NextSession == Tick \/ Construct \/ CallGraphQl \/ CallRest

SpecSession == InitSession /\ [][NextSession]_vars

----------------------------------------------------------------------------
(* Claims about the token file, checked under SpecSession *)

\* C13: whenever the token file is written, by the get_token of the
\* constructor or of the guard of a graph_ql or rest call, the expiry it then
\* holds is the time of the dump plus the lifetime the auth endpoint granted
\* for that token, and the token that was dumped carried that lifetime itself,
\* so the conversion to an absolute time was applied to it exactly once.
C13_StoredExpiryIsDumpTimePlusLifetime ==
    [][store' # store =>
         /\ store'.kind = "file"
         /\ call'.op = "get_token"
         /\ call'.now = now
         /\ call'.out.kind = "return"
         /\ call'.ep.expires_in \in Lifetimes
         /\ call'.out.value.expires_in = call'.ep.expires_in
         /\ store'.data.access_token = call'.out.value.access_token
         /\ store'.data.expires_in = now + call'.ep.expires_in]_vars

C13_Witness ==
    /\ last.op = "rest"
    /\ last.called
    /\ call.now > Epoch
    /\ call.store.kind = "file"
    /\ store # call.store
    /\ store.data.expires_in = call.now + call.ep.expires_in

----------------------------------------------------------------------------
(* Token on its own: a caller holds one Token object and calls its dump,    *)
(* load and is_expired while time passes                                    *)

\* the expires_in a Token object can carry: a granted lifetime or a time
Expiries == Lifetimes \cup (Epoch..(Epoch + MaxTicks))

Tokens ==
    { Token(<<"at", n>>, <<"rt", n>>, e, "manage_reports", "Bearer") :
        n \in 0..1, e \in Expiries }

InitToken ==
    /\ now = Epoch
    /\ store = NoFile
    /\ auth \in {a \in Authentications : a.grant_type = "client_credentials"}
    /\ issued = 0
    /\ authReqs = <<>>
    /\ call = NoCall
    /\ token \in Tokens
    /\ headers = [kind |-> "none"]
    /\ pc = "new"
    /\ last = NoCall
    /\ NoFanout
    /\ kwargs = <<>>
    /\ automated_report_query = <<>>
    /\ automated_report_variable = <<>>
    /\ iteration = 0
    /\ report_link_response = Dict(<<>>)
    /\ graphReqs = <<>>
    /\ inprog = <<>>
    /\ sleeps = <<>>
    /\ result = NoResult
    /\ environ = Urls
    /\ client_class = "DailymotionClient"

\* token.dump()
TokenDump ==
    /\ store' = Token_dump(token, now)
    /\ last' = [op |-> "dump", now |-> now]
    /\ result' = NoResult
    /\ UNCHANGED <<now, auth, issued, authReqs, call, token, headers, pc, client_class,
                   environ>>
    /\ UNCHANGED pollVars
    /\ UNCHANGED fanVars

\* Token.load()
TokenLoad ==
    /\ result' = Token_load(store)
    /\ UNCHANGED <<now, store, auth, issued, authReqs, call, token, headers, pc,
                   client_class, last, environ>>
    /\ UNCHANGED pollVars
    /\ UNCHANGED fanVars

\* token.is_expired()
TokenIsExpired ==
    /\ call' = [op |-> "is_expired", now |-> now, out |-> is_expired(token, now)]
    /\ UNCHANGED <<now, store, auth, issued, authReqs, token, headers, pc,
                   client_class, last, environ, result>>
    /\ UNCHANGED pollVars
    /\ UNCHANGED fanVars

NextToken == Tick \/ TokenDump \/ TokenLoad \/ TokenIsExpired

SpecToken == InitToken /\ [][NextToken]_vars

\* C14: for every Token, a load that follows its dump returns a token with the
\* same access token, refresh token, scope and token type, and with the expiry
\* that was computed at the dump: the dumped expires_in plus the time of the
\* dump, whatever the time of the load.
C14_DumpThenLoadRoundTrips ==
    (last.op = "dump" /\ result # NoResult) =>
        /\ result.kind = "return"
        /\ result.value.access_token = token.access_token
        /\ result.value.refresh_token = token.refresh_token
        /\ result.value.scope = token.scope
        /\ result.value.token_type = token.token_type
        /\ result.value.expires_in = token.expires_in + last.now

C14_Witness ==
    /\ last.op = "dump"
    /\ result.kind = "return"
    /\ now > last.now
    /\ token.expires_in \in Lifetimes

\* C15: is_expired answers true exactly when the time of the call is at or
\* past the token's expiry: true at the expiry itself, false at every earlier
\* time.
C15_ExpiredExactlyFromExpiryOn ==
    call.op = "is_expired" =>
        /\ call.now >= token.expires_in => call.out = TRUE
        /\ call.now < token.expires_in => call.out = FALSE

C15_Witness ==
    /\ call.op = "is_expired"
    /\ call.now = token.expires_in
    /\ call.out = TRUE

----------------------------------------------------------------------------
(* Claims about the refresh guard in sequential use, checked under SpecSession *)

DirectCall == last.op \in {"graph_ql", "rest"}

\* C16: a graph_ql or rest call that finds the held token expired calls
\* get_token; when that returns, the client holds the returned token, the
\* session's Authorization header is that token's header value, and the
\* call's HTTP request went out with that header; when it raises, no HTTP
\* request went out. This holds for every call of every client.
C16_ExpiredHeldTokenIsReplacedBeforeTheRequest ==
    (DirectCall /\ last.expired) =>
        /\ last.called
        /\ call.op = "get_token"
        /\ call.out.kind = "return" =>
             /\ token = call.out.value
             /\ headers = <<call.out.value.token_type, call.out.value.access_token>>
             /\ Len(last.sent) = 1
             /\ last.sent[1].Authorization =
                    <<call.out.value.token_type, call.out.value.access_token>>
        /\ call.out.kind = "raise" => last.sent = <<>>

\* C17: once the client is constructed, between its calls (after construction
\* and after every graph_ql, rest or get_report_file call, returned or
\* raised) the session's Authorization header is '{token_type} {access_token}'
\* of the token the client holds.
C17_HeaderIsOfTheHeldToken ==
    pc \notin {"new", "failed"} =>
        headers = <<token.token_type, token.access_token>>

C17_Witness ==
    /\ last.op = "rest"
    /\ last.called
    /\ call.out.kind = "return"
    /\ token = call.out.value
    /\ issued = 2
    /\ now > Epoch

----------------------------------------------------------------------------
(* The fan-out of rest lookups: async_fetch_rest_details_by_id of           *)
(* src/main.py. One coroutine per id takes a slot of the semaphore, runs    *)
(* client.rest in a thread of the executor and gives the slot back.         *)

MAX_CONCURRENCY == 10

\* the largest number of ids of one call
MaxIds == 11

\* the largest number of ids whose lookups are followed statement by statement
MaxBranches == 2

\* asyncio.Semaphore(value): its free slots
Semaphore_one_more(value) == value + 1
Semaphore(value) == value

\* the largest number of ids for which every set of failing ids is tried
MaxListed == 5

\* the ids whose lookup DM_REST_URL answers with an error: any set of a few
\* ids, none or every third of many
RaisingSets(n) ==
    IF n <= MaxListed THEN SUBSET (1..n)
    ELSE {{}, {i \in 1..n : i % 3 = 0}}

\* the body DM_REST_URL returns for the i-th id
VideoBodyOf(i) == Dict(<< <<"id", Str("x" \o ToString(i))>>, <<"title", Str("t")>> >>)

\* the reply of DM_REST_URL to the lookup of the i-th id
ReplyFor(bad, i) == IF i \in bad THEN Json(RestErrorBody) ELSE Json(VideoBodyOf(i))

None == [type |-> "none"]

Pending == [pc |-> "pending"]
InFlight == [pc |-> "inflight"]
Done(out) == [pc |-> "done", out |-> out]

\* what fetch_single_item returns for the outcome of its rest call
fetch_single_item(out) == IF out.kind = "raise" THEN None ELSE out.value

\* the list gather returns, None results filtered out
valid_results_unfiltered(ts) == [i \in DOMAIN ts |-> fetch_single_item(ts[i].out)]
valid_results(ts) ==
    SelectSeq([i \in DOMAIN ts |-> fetch_single_item(ts[i].out)],
              LAMBDA r : r # None)

\* a client built from a token file that holds a token valid throughout
HeldToken == Token(<<"at", 0>>, <<"rt", 0>>, Epoch + MaxTicks + 1, "manage_reports", "Bearer")

InitFanout ==
    /\ now = Epoch
    /\ store = File(HeldToken)
    /\ auth \in {a \in Authentications : a.grant_type = "client_credentials"}
    /\ issued = 0
    /\ authReqs = <<>>
    /\ call = NoCall
    /\ token = HeldToken
    /\ headers = get_authorization(HeldToken)
    /\ pc = "idle"
    /\ last = NoCall
    /\ NoFanout
    /\ kwargs = <<>>
    /\ automated_report_query = <<>>
    /\ automated_report_variable = <<>>
    /\ iteration = 0
    /\ report_link_response = Dict(<<>>)
    /\ graphReqs = <<>>
    /\ inprog = <<>>
    /\ sleeps = <<>>
    /\ result = Return("client")
    /\ client_class = "DailymotionClient"
    /\ environ = Urls

\* async_wrapper up to gather: the semaphore and one task per id are created
Start(counts) ==
    /\ pc = "idle"
    /\ \E n \in counts :
         \E bad \in RaisingSets(n) :
            /\ ids' = n
            /\ raising' = bad
            /\ semaphore' = Semaphore(MAX_CONCURRENCY)
            /\ tasks' = [i \in 1..n |-> Pending]
    /\ pc' = "fanout"
    /\ authReqs' = <<>>
    /\ result' = NoResult
    /\ UNCHANGED <<now, store, auth, issued, call, token, headers>>
    /\ UNCHANGED pollVars
    /\ UNCHANGED useVars

StartFanout == Start(0..MaxIds)

\* fetch_single_item enters 'async with semaphore' and hands client.rest to
\* the executor; tasks start and waiters are woken in the order of the ids
Acquire(i) ==
    /\ pc = "fanout"
    /\ i \in 1..ids
    /\ tasks[i] = Pending
    /\ \A j \in 1..(i - 1) : tasks[j] # Pending
    /\ semaphore > 0
    /\ semaphore' = semaphore - 1
    /\ tasks' = [tasks EXCEPT ![i] = InFlight]
    /\ UNCHANGED <<ids, raising, pc, result>>
    /\ UNCHANGED authVars
    /\ UNCHANGED clientVars
    /\ UNCHANGED pollVars
    /\ UNCHANGED useVars

\* the rest call of one lookup, guard and request together; fetch_single_item
\* then leaves 'async with semaphore'
LookedUp(g, i) ==
    /\ token' = g.token
    /\ headers' = g.headers
    /\ store' = g.store
    /\ issued' = g.issued
    /\ authReqs' = authReqs \o g.reqs
    /\ call' = IF g.calls = <<>> THEN call ELSE g.calls[1]
    /\ tasks' = [tasks EXCEPT ![i] =
                    Done(IF g.out.kind = "raise" THEN g.out
                         ELSE rest(ReplyFor(raising, i)))]
Lookup(i) ==
    /\ pc = "fanout"
    /\ i \in 1..ids
    /\ tasks[i] = InFlight
    /\ \E ep \in WrapperEndpoints(client_class, auth, token, store, now, issued) :
         LookedUp(wrapper(client_class, auth, token, headers, store, now, ep, issued), i)
    /\ semaphore' = semaphore + 1
    /\ UNCHANGED <<now, auth, ids, raising, pc, result>>
    /\ UNCHANGED pollVars
    /\ UNCHANGED useVars

\* gather has every result: the None results are dropped, the rest returned
ReturnFanout ==
    /\ pc = "fanout"
    /\ \A i \in 1..ids : tasks[i].pc = "done"
    /\ pc' = "returned"
    /\ result' = Return(valid_results(tasks))
    /\ UNCHANGED authVars
    /\ UNCHANGED clientVars
    /\ UNCHANGED pollVars
    /\ UNCHANGED useVars
    /\ UNCHANGED fanVars

RunFanout == (\E i \in 1..MaxIds : Acquire(i) \/ Lookup(i)) \/ ReturnFanout

NextFanout == StartFanout \/ RunFanout

SpecFanout == InitFanout /\ [][NextFanout]_vars

\* the event loop runs every task that can run and every lookup handed to the
\* executor comes back
SpecFanoutFair == SpecFanout /\ WF_vars(RunFanout)

----------------------------------------------------------------------------
(* Claims about the fan-out *)

InFlightIds == {i \in 1..ids : tasks[i] = InFlight}
AttemptedIds == {i \in 1..ids : tasks[i] # Pending}

\* C20: during async_fetch_rest_details_by_id, whatever the number of ids, at
\* most MAX_CONCURRENCY (10) rest lookups are in flight at any time, and once
\* the fan-out has started every id is eventually attempted.
C20_AtMostTenInFlightAndAllAttempted ==
    /\ [](Cardinality(InFlightIds) <= 10)
    /\ (pc = "fanout") ~> (AttemptedIds = 1..ids)

C20_Witness ==
    /\ ids > 10
    /\ Cardinality(InFlightIds) = 10
    /\ AttemptedIds # 1..ids

----------------------------------------------------------------------------
(* The same fan-out with the threads of the executor followed statement by  *)
(* statement: the guard of client.rest reads and writes client.token and    *)
(* the session headers without a lock, so the steps of the branches         *)
(* interleave. get_token itself is taken as one step.                       *)

InitRace == InitClient

StartRace == Start(1..MaxBranches)

\* line 154 of the guard: if self.token.is_expired()
CheckExpired(i) ==
    /\ pc = "fanout"
    /\ i \in 1..ids
    /\ tasks[i] = InFlight
    /\ tasks' = [tasks EXCEPT ![i] = IF is_expired(token, now)
                                    THEN [pc |-> "get_token"]
                                    ELSE [pc |-> "send"]]
    /\ UNCHANGED <<ids, raising, semaphore, pc, result>>
    /\ UNCHANGED authVars
    /\ UNCHANGED clientVars
    /\ UNCHANGED pollVars
    /\ UNCHANGED useVars

\* line 155 of the guard: self.token = auth.get_token(); an exception ends
\* the lookup and fetch_single_item leaves 'async with semaphore'
ReplaceToken(i) ==
    /\ pc = "fanout"
    /\ i \in 1..ids
    /\ tasks[i].pc = "get_token"
    /\ \E ep \in AuthEndpointsFor(auth, store, now, issued) :
         LET r == get_token(auth, store, now, ep, issued)
         IN /\ store' = r.store
            /\ issued' = r.issued
            /\ authReqs' = r.reqs
            /\ call' = GetTokenCall(store, now, ep, r)
            /\ IF r.out.kind = "return"
               THEN /\ token' = r.out.value
                    /\ tasks' = [tasks EXCEPT ![i] = [pc |-> "set_header"]]
                    /\ UNCHANGED semaphore
               ELSE /\ UNCHANGED token
                    /\ tasks' = [tasks EXCEPT ![i] = Done(r.out)]
                    /\ semaphore' = semaphore + 1
    /\ UNCHANGED <<now, auth, headers, ids, raising, pc, result>>
    /\ UNCHANGED pollVars
    /\ UNCHANGED useVars

\* line 157 of the guard: the argument of headers.update is evaluated,
\* self.token.get_authorization() of self.token as it is now
ReadToken(i) ==
    /\ pc = "fanout"
    /\ i \in 1..ids
    /\ tasks[i].pc = "set_header"
    /\ tasks' = [tasks EXCEPT ![i] = [header |-> get_authorization(token),
                                      pc |-> "update"]]
    /\ UNCHANGED <<ids, raising, semaphore, pc, result>>
    /\ UNCHANGED authVars
    /\ UNCHANGED clientVars
    /\ UNCHANGED pollVars
    /\ UNCHANGED useVars

\* line 156 of the guard: headers.update stores the value evaluated before
UpdateHeader(i) ==
    /\ pc = "fanout"
    /\ i \in 1..ids
    /\ tasks[i].pc = "update"
    /\ headers' = tasks[i].header
    /\ tasks' = [tasks EXCEPT ![i] = [pc |-> "send"]]
    /\ UNCHANGED <<token, ids, raising, semaphore, pc, result>>
    /\ UNCHANGED authVars
    /\ UNCHANGED pollVars
    /\ UNCHANGED useVars

\* the body of rest: the request goes out with the session's header as it is
\* now; fetch_single_item then leaves 'async with semaphore'
SendRequest(i) ==
    /\ pc = "fanout"
    /\ i \in 1..ids
    /\ tasks[i].pc = "send"
    /\ last' = [op |-> "rest", held |-> token,
                sent |-> Sent("DM_REST_URL", Request("DM_REST_URL", headers))]
    /\ tasks' = [tasks EXCEPT ![i] = Done(rest(ReplyFor(raising, i)))]
    /\ semaphore' = semaphore + 1
    /\ UNCHANGED <<ids, raising, pc, result, client_class, environ>>
    /\ UNCHANGED authVars
    /\ UNCHANGED clientVars
    /\ UNCHANGED pollVars

RunRace ==
    \E i \in 1..MaxBranches :
        \/ Acquire(i) \/ CheckExpired(i) \/ ReplaceToken(i)
        \/ ReadToken(i) \/ UpdateHeader(i) \/ SendRequest(i)

NextRace == Construct \/ Tick \/ StartRace \/ RunRace \/ ReturnFanout

SpecRace == InitRace /\ [][NextRace]_vars

\* C18: during the fan-out every rest request a branch sends goes out while
\* the session's Authorization header is the header value of the token the
\* client holds at that moment: no branch sees the token replaced and the
\* header not yet updated.
C18_RequestsSeeTokenAndHeaderTogether ==
    (pc \in {"fanout", "returned"} /\ last.op = "rest") =>
        last.sent[1].Authorization = <<last.held.token_type, last.held.access_token>>

\* C19: while the fan-out is in flight no branch is inside the guard's
\* get_token call and no request has gone to the auth endpoint, so no two
\* refreshes run at the same time.
C19_NoRefreshDuringFanout ==
    pc = "fanout" =>
        /\ \A i \in 1..ids : tasks[i].pc # "get_token"
        /\ authReqs = <<>>

FanoutReturned == pc = "returned"
EntriesOf(i) ==
    {k \in DOMAIN result.value :
        /\ result.value[k].type = "dict"
        /\ DictGet(result.value[k].items, "id") = Str("x" \o ToString(i))}

\* C21: whatever the ids and whichever of them have a lookup that raises,
\* async_fetch_rest_details_by_id raises nothing; every id's lookup has run
\* to its end, and the result holds exactly one entry for each id whose
\* lookup succeeded and no entry for an id whose lookup raised.
C21_FailedLookupsAreLeftOutOnly ==
    FanoutReturned =>
        /\ result.kind = "return"
        /\ \A i \in 1..ids : tasks[i].pc = "done"
        /\ \A i \in (1..ids) \ raising :
             tasks[i].out.kind = "return" /\ Cardinality(EntriesOf(i)) = 1
        /\ \A i \in raising :
             tasks[i].out.kind = "raise" /\ EntriesOf(i) = {}
        /\ Len(result.value) = ids - Cardinality(raising)

C21_Witness ==
    /\ FanoutReturned
    /\ ids = 5
    /\ raising = {3}
    /\ Len(result.value) = 4

----------------------------------------------------------------------------
(* Constructing the Authentication object *)

\* '%s' % v
Format(v) == IF v = None THEN "None" ELSE v.v

\* DailymotionClientException.__init__ and its subclasses: the message is
\* 'Error %s: %s' % (int(self._code), message or 'Client error')
ExceptionCode(exc) ==
    CASE exc = "DailymotionClientException" -> "-1"
      [] exc = "DailymotionApiException" -> "1000"
      [] exc = "DailymotionAuthException" -> "2000"
      [] exc = "DailymotionTokenExpired" -> "2100"
      [] exc = "DailymotionReportException" -> "3000"
DailymotionException(exc, message) ==
    [exc |-> exc, kind |-> "raise",
     message |-> "Error " \o ExceptionCode(exc) \o ": "
                 \o (IF message = "" THEN "Client error" ELSE message)]

\* the class hierarchy of the exceptions: isinstance(e, cls)
IsInstance(e, cls) ==
    \/ e = cls
    \/ cls = "DailymotionClientException"
         /\ e \in {"DailymotionApiException", "DailymotionAuthException",
                   "DailymotionTokenExpired", "DailymotionReportException"}
    \/ cls = "DailymotionAuthException" /\ e = "DailymotionTokenExpired"

\* Authentication.__init__: the object it builds, or the exception it raises
Authentication_init_checks_username_only(client_api, client_secret, grant_type, scope, username, password) ==
    IF client_api = None \/ client_secret = None
    THEN DailymotionException("DailymotionClientException",
            "client_api and client_secret are required\npassed: {\"client_api\": "
            \o Format(client_api) \o ", \"client_secret\": " \o Format(client_secret) \o "}")
    ELSE IF grant_type = "password" /\ username = None
    THEN DailymotionException("DailymotionAuthException",
            "username and password are required for password grant type\npassed: {\"username\": "
            \o Format(username) \o ", \"password\": " \o Format(password) \o "}")
    ELSE Return([client_api |-> client_api, client_secret |-> client_secret,
                 grant_type |-> grant_type, password |-> password,
                 scope |-> scope, username |-> username])
Authentication_init(client_api, client_secret, grant_type, scope, username, password) ==
    IF client_api = None \/ client_secret = None
    THEN DailymotionException("DailymotionClientException",
            "client_api and client_secret are required\npassed: {\"client_api\": "
            \o Format(client_api) \o ", \"client_secret\": " \o Format(client_secret) \o "}")
    ELSE IF grant_type = "password" /\ (username = None \/ password = None)
    THEN DailymotionException("DailymotionAuthException",
            "username and password are required for password grant type\npassed: {\"username\": "
            \o Format(username) \o ", \"password\": " \o Format(password) \o "}")
    ELSE Return([client_api |-> client_api, client_secret |-> client_secret,
                 grant_type |-> grant_type, password |-> password,
                 scope |-> scope, username |-> username])

\* Authentication.from_password
from_password(client_api, client_secret, username, password, scope) ==
    Authentication_init(client_api, client_secret, "password", scope, username, password)

\* Authentication.from_credential
from_credential(client_api, client_secret, scope) ==
    Authentication_init(client_api, client_secret, "client_credentials", scope, None, None)

\* the arguments a caller can pass
ClientApis == {None, Str(""), Str("id")}
ClientSecrets == {None, Str(""), Str("secret"), Str("secret2")}
GrantTypes == {"client_credentials", "password", "pippo"}
Scopes == {None, List(<<"create_reports">>), List(<<"create_reports", "foo">>)}
Usernames == {None, Str(""), Str("user")}
Passwords == {None, Str(""), Str("pw"), Str("pw2")}

InitCredential ==
    /\ now = Epoch
    /\ store = NoFile
    /\ auth = None
    /\ issued = 0
    /\ authReqs = <<>>
    /\ call = NoCall
    /\ InitIdle
    /\ client_class = "DailymotionClient"

\* a call that builds an Authentication; auth is the name the caller binds the
\* object to, and stays unbound when the call raises; the program builds its
\* Authentication once
Build(op, client_api, client_secret, grant_type, scope, username, password, out) ==
    /\ call = NoCall
    /\ call' = [client_api |-> client_api, client_secret |-> client_secret,
                grant_type |-> grant_type, op |-> op, password |-> password,
                scope |-> scope, username |-> username]
    /\ result' = out
    /\ auth' = IF out.kind = "return" THEN out.value ELSE None
    /\ authReqs' = <<>>
    /\ UNCHANGED <<now, store, issued, token, headers, pc, client_class, last, environ>>
    /\ UNCHANGED pollVars
    /\ UNCHANGED fanVars

\* Authentication(client_api, client_secret, grant_type=..., scope=..., **kwargs)
NewAuthentication ==
    \E client_api \in ClientApis, client_secret \in ClientSecrets,
       grant_type \in GrantTypes, scope \in Scopes,
       username \in Usernames, password \in Passwords :
        Build("Authentication", client_api, client_secret, grant_type, scope,
              username, password,
              Authentication_init(client_api, client_secret, grant_type, scope,
                                  username, password))

\* Authentication.from_password(client_api, client_secret, username=..., password=..., scope=...)
FromPassword ==
    \E client_api \in ClientApis, client_secret \in ClientSecrets, scope \in Scopes,
       username \in Usernames, password \in Passwords :
        Build("from_password", client_api, client_secret, "password", scope,
              username, password,
              from_password(client_api, client_secret, username, password, scope))

\* Authentication.from_credential(client_api, client_secret, scope)
FromCredential ==
    \E client_api \in ClientApis, client_secret \in ClientSecrets, scope \in Scopes :
        Build("from_credential", client_api, client_secret, "client_credentials", scope,
              None, None,
              from_credential(client_api, client_secret, scope))

NextCredential == NewAuthentication \/ FromPassword \/ FromCredential

SpecCredential == InitCredential /\ [][NextCredential]_vars

Built == call.op \in {"Authentication", "from_password", "from_credential"}

\* C22: with a client id and a client secret given, constructing an
\* Authentication with grant type 'password' and no username or no password
\* raises DailymotionAuthException: no object is bound and no request is sent.
C22_PasswordGrantNeedsUsernameAndPassword ==
    (/\ Built
     /\ call.client_api # None /\ call.client_secret # None
     /\ call.grant_type = "password"
     /\ (call.username = None \/ call.password = None)) =>
        /\ result.kind = "raise"
        /\ result.exc = "DailymotionAuthException"
        /\ auth = None
        /\ authReqs = <<>>

C22_Witness ==
    /\ call.op = "Authentication"
    /\ call.client_api = Str("id") /\ call.client_secret = Str("secret")
    /\ call.grant_type = "password"
    /\ call.username = Str("user") /\ call.password = None
    /\ result.kind = "raise"
    /\ result.exc = "DailymotionAuthException"

Empty(v) == v = None \/ v = Str("")

\* C23: every Authentication that was built has a non-empty client id and a
\* non-empty client secret, and with grant type 'password' a username and a
\* password that are both present and non-empty.
C23_BuiltAuthenticationHasItsCredentials ==
    (Built /\ result.kind = "return") =>
        /\ ~Empty(auth.client_api)
        /\ ~Empty(auth.client_secret)
        /\ auth.grant_type = "password" =>
             ~Empty(auth.username) /\ ~Empty(auth.password)

\* C24: constructing an Authentication with a grant type other than
\* 'client_credentials' or 'password' raises DailymotionClientException.
C24_UnknownGrantTypeIsRejected ==
    (Built /\ call.grant_type \notin {"client_credentials", "password"}) =>
        /\ result.kind = "raise"
        /\ IsInstance(result.exc, "DailymotionClientException")

\* the scope names test_scopes lists as valid
ValidScopes ==
    {"access_ads", "access_revenue", "create_reports", "delete_reports", "email",
     "manage_reports", "manage_likes", "manage_players", "manage_playlists",
     "manage_podcasts", "manage_subscriptions", "manage_subtitles", "manage_videos",
     "read_reports", "userinfo"}
ValidScope(scope) ==
    /\ scope # None
    /\ \A k \in DOMAIN scope.items : scope.items[k] \in ValidScopes

\* C25: constructing an Authentication, directly or through from_credential,
\* with a scope that is None or that lists a name outside the valid scopes
\* raises DailymotionClientException.
C25_InvalidScopeIsRejected ==
    (Built /\ ~ValidScope(call.scope)) =>
        /\ result.kind = "raise"
        /\ IsInstance(result.exc, "DailymotionClientException")

\* C27: the message of an exception the constructor raises does not depend on
\* the client secret or on the password: the same call with any other secret
\* and any other password (given where they were given, absent where they
\* were absent) raises with the same message.
C27_ErrorMessagesHideSecretAndPassword ==
    (Built /\ result.kind = "raise") =>
        \A s \in ClientSecrets, p \in Passwords :
            ((s = None) <=> (call.client_secret = None)) /\
            ((p = None) <=> (call.password = None)) =>
                LET other == Authentication_init(call.client_api, s, call.grant_type,
                                                 call.scope, call.username, p)
                IN other.kind = "raise" /\ other.message = result.message

\* the value of a top-level key of a decoded reply, where it is a non-empty list
\* (errors) or a non-empty map (error)
TopLevel(reply, key) ==
    IF reply.kind = "json" /\ \E k \in DOMAIN reply.body.items : reply.body.items[k][1] = key
    THEN (CHOOSE pair \in {reply.body.items[k] : k \in DOMAIN reply.body.items} :
             pair[1] = key)[2]
    ELSE None
Carries(reply, key) ==
    /\ TopLevel(reply, key) # None
    /\ TopLevel(reply, key).items # <<>>

\* C26: a graph_ql call whose decoded response carries a top-level 'errors'
\* list with an error in it raises DailymotionReportException with the first
\* error's message, and a rest call whose decoded response carries a top-level
\* 'error' raises DailymotionApiException; neither returns a response.
C26_ErrorsInTheResponseAreRaised ==
    (last.op \in {"graph_ql", "rest"} /\ last.sent # <<>>) =>
        /\ (last.op = "graph_ql" /\ Carries(last.reply, "errors")) =>
             /\ result.kind = "raise"
             /\ result.exc = "DailymotionReportException"
             /\ \E pair \in {TopLevel(last.reply, "errors").items[1].items[1]} :
                  pair[1] = "message" /\ result.message = pair[2]
        /\ (last.op = "rest" /\ Carries(last.reply, "error")) =>
             /\ result.kind = "raise"
             /\ result.exc = "DailymotionApiException"

C26_Witness ==
    /\ last.op = "graph_ql"
    /\ last.sent # <<>>
    /\ last.reply = Json(TwoErrorsBody)
    /\ result.kind = "raise"
    /\ result.message = Str("first")

----------------------------------------------------------------------------
(* The program under an environment where base URLs may be missing *)

InitEnviron ==
    /\ InitAuth
    /\ auth.grant_type = "client_credentials"
    /\ token = [kind |-> "none"]
    /\ headers = [kind |-> "none"]
    /\ pc = "new"
    /\ last = NoCall
    /\ NoFanout
    /\ kwargs = <<>>
    /\ automated_report_query = <<>>
    /\ automated_report_variable = <<>>
    /\ iteration = 0
    /\ report_link_response = Dict(<<>>)
    /\ graphReqs = <<>>
    /\ inprog = <<>>
    /\ sleeps = <<>>
    /\ result = NoResult
    /\ client_class = "DailymotionClient"
    /\ environ \in SUBSET Urls

\* the job: get_token may be run by hand first, then the client is built and used
NextEnviron ==
    (pc = "new" /\ GetToken) \/ Construct \/ CallGraphQl \/ CallRest \/ StartRace
        \/ RunFanout

SpecEnviron == InitEnviron /\ [][NextEnviron]_vars

\* the get_token call had to ask the auth endpoint: no token file, or an
\* expired token in it
NeedsAuthUrl(c) ==
    \/ c.store = NoFile
    \/ c.store.kind = "file" /\ c.store.data.expires_in <= c.now

\* C28: when a base URL is not set, the operation that needs it raises and
\* sends no HTTP request: get_token for DM_AUTH_URL, graph_ql for DM_GRAPH_URL,
\* rest for DM_REST_URL; and with DM_REST_URL not set a fan-out over at least
\* one id does not return a result.
C28_MissingBaseUrlFailsLoudly ==
    /\ (call.op = "get_token" /\ ~Configured("DM_AUTH_URL") /\ NeedsAuthUrl(call)) =>
          call.out.kind = "raise" /\ call.ep = [refresh |-> 0, generate |-> 0, expires_in |-> 0]
    /\ (pc = "idle" /\ last.op = "graph_ql" /\ ~Configured("DM_GRAPH_URL")) =>
          result.kind = "raise" /\ last.sent = <<>>
    /\ (pc = "idle" /\ last.op = "rest" /\ ~Configured("DM_REST_URL")) =>
          result.kind = "raise" /\ last.sent = <<>>
    /\ (pc = "returned" /\ ids > 0 /\ ~Configured("DM_REST_URL")) =>
          result.kind = "raise"

----------------------------------------------------------------------------
(* _recursive_search_key on bounded trees *)

\* trees of at most MaxNodes nodes
MaxNodes == 4

TreeKeys == {"reportToken", "b"}
Leaves == {Str("x1"), Str("x2")}

\* the orders in which n distinct keys can have been inserted into a dict
KeyOrders(n) == {ks \in [1..n -> TreeKeys] : \A i, j \in 1..n : i # j => ks[i] # ks[j]}

RECURSIVE TreesOfSize(_)
RECURSIVE ForestsOfSize(_)

\* the sequences of trees with m nodes in total
ForestsOfSize(m) ==
    IF m = 0 THEN {<<>>}
    ELSE UNION {{<<t>> \o f : t \in TreesOfSize(k), f \in ForestsOfSize(m - k)} : k \in 1..m}

\* the JSON values with n nodes: strings, lists and dicts
TreesOfSize(n) ==
    IF n = 1 THEN Leaves \cup {List(<<>>), Dict(<<>>)}
    ELSE {List(f) : f \in ForestsOfSize(n - 1)} \cup
         UNION {{Dict([i \in 1..Len(f) |-> <<ks[i], f[i]>>]) : ks \in KeyOrders(Len(f))} :
                   f \in ForestsOfSize(n - 1)}

\* {"a": {"reportToken": "x1", "b": [{"reportToken": "x2"}]}}
NestedTokens ==
    Dict(<< <<"a", Dict(<< <<"reportToken", Str("x1")>>,
                            <<"b", List(<< Dict(<< <<"reportToken", Str("x2")>> >>) >>)>> >>)>> >>)

Trees == UNION {TreesOfSize(n) : n \in 1..MaxNodes} \cup {NestedTokens}

InitSearch ==
    /\ now = Epoch
    /\ store = NoFile
    /\ auth \in {a \in Authentications : a.grant_type = "client_credentials"}
    /\ issued = 0
    /\ authReqs = <<>>
    /\ call = NoCall
    /\ token = [kind |-> "none"]
    /\ headers = [kind |-> "none"]
    /\ pc = "new"
    /\ last = NoCall
    /\ NoFanout
    /\ kwargs = <<>>
    /\ automated_report_query = <<>>
    /\ automated_report_variable = <<>>
    /\ iteration = 0
    /\ report_link_response \in Trees
    /\ graphReqs = <<>>
    /\ inprog = <<>>
    /\ sleeps = <<>>
    /\ result = NoResult
    /\ client_class = "DailymotionClient"
    /\ environ = Urls

\* tuple(_recursive_search_key(report_link_response, key))
Search ==
    /\ last = NoCall
    /\ \E key \in TreeKeys :
         /\ last' = [key |-> key, op |-> "recursive_search_key"]
         /\ result' = Return(recursive_search_key(report_link_response, key))
    /\ UNCHANGED authVars
    /\ UNCHANGED clientVars
    /\ UNCHANGED pollVars
    /\ UNCHANGED fanVars
    /\ UNCHANGED <<pc, client_class, environ>>

NextSearch == Search

SpecSearch == InitSearch /\ [][NextSearch]_vars

\* the children of a node, a position in the tree as the indexes leading to it,
\* and the node at a position
Children(node) ==
    IF node.type = "list" THEN node.items
    ELSE IF node.type = "dict" THEN [i \in DOMAIN node.items |-> node.items[i][2]]
    ELSE <<>>
RECURSIVE Positions(_)
Positions(node) ==
    {<<>>} \cup UNION {{<<i>> \o p : p \in Positions(Children(node)[i])} :
                          i \in DOMAIN Children(node)}
RECURSIVE At(_, _)
At(node, p) == IF p = <<>> THEN node ELSE At(Children(node)[Head(p)], Tail(p))

\* the position is an entry of a map under the key
Occurrence(node, p, key) ==
    /\ p # <<>>
    /\ LET parent == At(node, SubSeq(p, 1, Len(p) - 1))
       IN parent.type = "dict" /\ parent.items[p[Len(p)]][1] = key

\* pre-order: a position comes before the positions below it and before the
\* positions under a later sibling
PreOrderBefore(p, q) ==
    \E k \in 0..Len(p) :
        /\ k <= Len(q)
        /\ \A j \in 1..k : p[j] = q[j]
        /\ \/ k = Len(p) /\ Len(q) > k
           \/ k < Len(p) /\ k < Len(q) /\ p[k + 1] < q[k + 1]

\* C29: for every tree and key, _recursive_search_key yields one value per
\* occurrence of the key in a map at any depth, the values in pre-order of
\* their occurrences: a matched value comes before the matches inside it, and
\* the matches inside it are yielded too.
C29_OneValuePerOccurrenceInPreOrder ==
    last.op = "recursive_search_key" =>
        LET occurrences == {p \in Positions(report_link_response) :
                               Occurrence(report_link_response, p, last.key)}
        IN /\ result.kind = "return"
           /\ Len(result.value) = Cardinality(occurrences)
           /\ \A p \in occurrences :
                result.value[1 + Cardinality({q \in occurrences : PreOrderBefore(q, p)})]
                    = At(report_link_response, p)

C29_Witness ==
    /\ last.op = "recursive_search_key"
    /\ last.key = "reportToken"
    /\ report_link_response = NestedTokens
    /\ result.value = <<Str("x1"), Str("x2")>>

----------------------------------------------------------------------------
(* The query builder on bounded token lists *)

\* token lists of at most MaxTokens tokens
MaxTokens == 4

ReportTokens == {Str("t1"), Str("t2"), Str("t3")}
TokenLists == UNION {[1..n -> ReportTokens] : n \in 0..MaxTokens}

\* __generate_graphql_to_get_report_file_by_token(tokens), as get_report_file
\* calls it: the query and the variables are kept for the status requests
GenerateQuery ==
    /\ last = NoCall
    /\ \E tokens \in TokenLists :
         LET built == generate_graphql_to_get_report_file_by_token(tokens)
         IN /\ last' = [op |-> "generate_graphql", tokens |-> tokens]
            /\ automated_report_query' = built.query
            /\ automated_report_variable' = built.variables
            /\ result' = Return("built")
    /\ UNCHANGED authVars
    /\ UNCHANGED clientVars
    /\ UNCHANGED fanVars
    /\ UNCHANGED <<pc, client_class, environ, kwargs, iteration, report_link_response,
                   graphReqs, inprog, sleeps>>

NextBuilder == GenerateQuery

\* the builder is a static method: it needs no client and no Authentication
InitBuilder == InitCredential

SpecBuilder == InitBuilder /\ [][NextBuilder]_vars

\* C30: for every list of N >= 0 tokens, duplicates included, the builder
\* returns N variables reportToken1..reportTokenN, the i-th bound to the i-th
\* token, and a query that declares exactly these as '$name:String!' and has
\* one sub-query report{i} over $reportToken{i} per token; for the empty list
\* it returns no variables and an empty query, and raises nothing.
C30_OneVariableAndOneAliasPerToken ==
    last.op = "generate_graphql" =>
        LET N == Len(last.tokens)
        IN /\ result.kind = "return"
           /\ DOMAIN automated_report_variable = 1..N
           /\ DOMAIN automated_report_query.declared = 1..N
           /\ DOMAIN automated_report_query.partner = 1..N
           /\ \A i \in 1..N :
                /\ automated_report_variable[i] =
                      <<"reportToken" \o ToString(i), last.tokens[i]>>
                /\ automated_report_query.declared[i] =
                      "$reportToken" \o ToString(i) \o ":String!"
                /\ automated_report_query.partner[i].alias = "report" \o ToString(i)
                /\ automated_report_query.partner[i].reportToken =
                      "$reportToken" \o ToString(i)

C30_Witness ==
    /\ last.op = "generate_graphql"
    /\ last.tokens = <<Str("t1"), Str("t2"), Str("t1")>>
    /\ automated_report_variable =
          << <<"reportToken1", Str("t1")>>, <<"reportToken2", Str("t2")>>,
             <<"reportToken3", Str("t1")>> >>

----------------------------------------------------------------------------
(* Claims about the requests of one get_report_file call, checked under SpecClient *)

\* the status polls of the call: every structured-query request after the first
StatusPolls == 2..Len(graphReqs)

\* the positions of the key in the initial response
TokenOccurrences ==
    {p \in Positions(last.response_tokens.value) :
        Occurrence(last.response_tokens.value, p, "reportToken")}

\* C31: the first structured-query request of a get_report_file call is the
\* caller's query and every later one is a status query; every status poll carries the status
\* query built once before the loop, whose variables bind, in pre-order, one
\* value per occurrence of 'reportToken' in the initial response, so all polls
\* of the call poll the same tokens.
C31_StatusPollsCarryTheTokensOfTheInitialResponse ==
    /\ graphReqs # <<>> => graphReqs[1] = CallerQuery
    /\ \A i \in StatusPolls :
         /\ graphReqs[i].query = automated_report_query
         /\ DOMAIN graphReqs[i].query = {"declared", "partner"}
         /\ graphReqs[i].variables = automated_report_variable
         /\ graphReqs[i] = graphReqs[2]
         /\ last.op = "get_report_file"
         /\ last.response_tokens.kind = "return"
         /\ Len(graphReqs[i].variables) = Cardinality(TokenOccurrences)
         /\ \A p \in TokenOccurrences :
              graphReqs[i].variables[1 + Cardinality({q \in TokenOccurrences :
                                                         PreOrderBefore(q, p)})][2]
                  = At(last.response_tokens.value, p)

C31_Witness ==
    /\ Len(graphReqs) = 3
    /\ graphReqs[1] = CallerQuery
    /\ Len(graphReqs[3].variables) = 2
    /\ graphReqs[3].variables[1][2] = Str("tok1")
    /\ graphReqs[3].variables[2][2] = Str("tok2")
    /\ last.response_tokens.value = CreatedBody(2)

----------------------------------------------------------------------------
(* Claims about the failure paths of get_token, checked under SpecAuth *)

----------------------------------------------------------------------------
(* Claims about failed requests of get_report_file, checked under SpecClient *)

\* the errors graph_ql raises for a reply: endpoint-reported errors, undecodable body
GraphQlErrors == {"DailymotionReportException", "DailymotionClientException"}
RequestFailed == result.kind = "raise" /\ result.exc \in GraphQlErrors

\* the responses the call went on with: the initial one and the status ones
InitialAccepted == last.op = "get_report_file" /\ last.response_tokens.kind = "return"
Accepted == (IF InitialAccepted THEN 1 ELSE 0) + Len(inprog)

\* C33: a get_report_file call goes on with no response that carries errors,
\* and every request it sent either got a response the call went on with or is
\* the one failed request, the last one, whose error is the call's outcome: after
\* a failed initial query or status poll the call is over with that error, having
\* sent nothing more, slept no more and returned no links.
C33_FailedRequestEndsTheCall ==
    /\ InitialAccepted => ~Carries(Json(last.response_tokens.value), "errors")
    /\ ~Carries(Json(report_link_response), "errors")
    /\ Len(graphReqs) = Accepted + (IF RequestFailed THEN 1 ELSE 0)
    /\ RequestFailed =>
         /\ pc = "done"
         /\ ~ENABLED NextClient
         /\ Len(sleeps) = Len(inprog)
         /\ \A i \in DOMAIN inprog : inprog[i]
         /\ result.exc = "DailymotionReportException" => result.message = Str("bad request")

C33_Witness ==
    /\ RequestFailed
    /\ result.exc = "DailymotionReportException"
    /\ Len(graphReqs) = 3
    /\ inprog = <<TRUE>>
    /\ sleeps = <<1>>

\* C34: a get_token call that raises, after a failed generate request with or
\* without a failed refresh request before it, leaves the token file as it
\* found it: no file stays no file and a stored token stays stored unmodified.
C34_FailedGetTokenLeavesTheStore ==
    (CalledGetToken /\ call.out.kind = "raise") =>
        /\ store = call.store
        /\ call.store.kind = "absent" => store = NoFile
        /\ call.store.kind = "file" =>
             /\ store.kind = "file"
             /\ store.data = call.store.data
        /\ call.out = Raise("DailymotionAuthException") =>
             /\ call.ep.generate = 401
             /\ authReqs # <<>>
             /\ authReqs[Len(authReqs)].grant_type = auth.grant_type

C34_Witness ==
    /\ LoadedExpired
    /\ call.out = Raise("DailymotionAuthException")
    /\ call.ep.refresh = 401
    /\ call.ep.generate = 401
    /\ Len(authReqs) = 2
    /\ store = call.store

\* C35: a get_token call that finds a token file it cannot decode, or one that
\* lacks a field, raises the error of Token.load (JSONDecodeError, KeyError):
\* it sends nothing to the auth endpoint, generates no token and leaves the
\* file as it found it.
C35_UnreadableStoreFailsTheCall ==
    (CalledGetToken /\ call.store.kind \in {"malformed", "incomplete"}) =>
        /\ call.out.kind = "raise"
        /\ call.store.kind = "malformed" => call.out.exc = "JSONDecodeError"
        /\ call.store.kind = "incomplete" => call.out.exc = "KeyError"
        /\ authReqs = <<>>
        /\ issued = 0
        /\ store = call.store

C35_Witness ==
    /\ CalledGetToken
    /\ call.store = Incomplete
    /\ call.out = Raise("KeyError")
    /\ store = Incomplete
    /\ now > Epoch

----------------------------------------------------------------------------
(* Claims about the session after a fan-out, checked under SpecRace *)

\* C36: when the fan-out has returned, every branch finished, the session's
\* Authorization header is the header value of the token the client holds.
C36_HeaderIsOfTheHeldTokenAfterFanout ==
    (pc = "returned" /\ ids >= 2) =>
        headers = <<token.token_type, token.access_token>>

----------------------------------------------------------------------------
(* Claims about calls with a valid held token, checked under SpecSession *)

\* C37: a graph_ql or rest call on a client whose held token is not expired
\* makes no get_token call, sends nothing to the auth endpoint, leaves the
\* token file, the held token and the session's Authorization header as they
\* were, and its request goes out with that header.
C37_UnexpiredHeldTokenMeansNoRefresh ==
    [][(pc = "idle" /\ now' = now /\ now < token.expires_in) =>
         /\ last'.op \in {"graph_ql", "rest"}
         /\ ~last'.expired
         /\ ~last'.called
         /\ call' = call
         /\ authReqs' = <<>>
         /\ issued' = issued
         /\ store' = store
         /\ token' = token
         /\ headers' = headers
         /\ last'.sent = <<Request(IF last'.op = "rest" THEN "DM_REST_URL"
                                   ELSE "DM_GRAPH_URL", headers)>>]_vars

C37_Witness ==
    /\ client_class = "DailymotionClient"
    /\ last.op = "graph_ql"
    /\ ~last.expired
    /\ ~last.called
    /\ last.sent # <<>>
    /\ now > Epoch
    /\ now < token.expires_in
    /\ authReqs = <<>>

----------------------------------------------------------------------------
(* Claims about repeated get_token calls, checked under SpecAuth *)

\* C38: a get_token call that follows a get_token call that returned, while the
\* token in the file is unexpired, sends nothing to the auth endpoint, leaves
\* the file as it is and returns a token with the access token, refresh
\* token, scope and token type the call before it returned.
C38_GetTokenIsIdempotentWhileUnexpired ==
    [][(/\ CalledGetToken
        /\ call.out.kind = "return"
        /\ store.kind = "file"
        /\ now < store.data.expires_in
        /\ now' = now) =>
         /\ call'.op = "get_token"
         /\ call'.out.kind = "return"
         /\ authReqs' = <<>>
         /\ issued' = issued
         /\ store' = store
         /\ call'.out.value.access_token = call.out.value.access_token
         /\ call'.out.value.refresh_token = call.out.value.refresh_token
         /\ call'.out.value.scope = call.out.value.scope
         /\ call'.out.value.token_type = call.out.value.token_type]_vars

\* the second of two calls: the first found no usable token and generated one
C38_Witness ==
    /\ CalledGetToken
    /\ call.store.kind = "file"
    /\ call.store.data.access_token = <<"at", 1>>
    /\ call.out.kind = "return"
    /\ call.out.value.access_token = <<"at", 1>>
    /\ call.out.value.refresh_token = <<"rt", 1>>
    /\ issued = 1
    /\ authReqs = <<>>
    /\ store = call.store

----------------------------------------------------------------------------
(* The polling loop of get_report_file as a running program, on a client    *)
(* built from a token file that holds a valid token: a call that can take   *)
(* its next statement takes it (the request is answered, the sleep ends)    *)

InitPolling == InitFanout

NextPolling == CallGetReportFile \/ LoopExit \/ PollStatus \/ Sleep

SpecPolling == InitPolling /\ [][NextPolling]_vars

SpecPollingFair == SpecPolling /\ WF_vars(PollStatus) /\ WF_vars(Sleep)

\* the model follows a call for MaxIter sleeps
HorizonReached == pc = "sleep" /\ iteration = MaxIter

\* C39: a get_report_file call without max_retry returns only right after a
\* status response without IN_PROGRESS, with the links of that response, and
\* after a response with IN_PROGRESS it sleeps and polls again; the call goes
\* on until it is over, so unless every status response so far contained
\* IN_PROGRESS, up to the horizon of the model, it has ended.
C39_WithoutMaxRetryPollsUntilReady ==
    /\ []((~MaxRetrySet /\ Returned) =>
            /\ LastReady
            /\ result.value = recursive_search_key(report_link_response, "link"))
    /\ []((~MaxRetrySet /\ pc = "sleep") => inprog[Len(inprog)])
    /\ (~MaxRetrySet /\ pc = "loop") ~>
           (pc = "done" \/ (HorizonReached /\ \A i \in DOMAIN inprog : inprog[i]))

C39_Witness ==
    /\ ~MaxRetrySet
    /\ Returned
    /\ inprog = <<TRUE, TRUE, FALSE>>
    /\ sleeps = <<1, 2>>
    /\ result.value = <<Str("https://link1")>>

====
